---- MODULE Spec2Model ----
(***************************************************************************)
(* A model of OAuthAgentClient (token-handler-js-assistant): the browser   *)
(* side client of the Token Handler's OAuth Agent.                         *)
(*                                                                         *)
(* Strings that the client takes apart or puts together (the base URL, the *)
(* endpoint paths, the request URL) are sequences of tokens, "/" being a   *)
(* token of its own.  JavaScript values that the client only passes on are *)
(* strings; the value undefined is the string "undefined".                 *)
(***************************************************************************)
EXTENDS Integers, Sequences, FiniteSets, TLC

VARIABLES
    config,             \* the Configuration handed to the constructor
    oauthAgentBaseUrl,  \* OAuthAgentClient.oauthAgentBaseUrl (private readonly)
    calls,              \* per call slot: the position and locals of the async call
    network             \* the requests handed to window.fetch and not yet answered

vars == <<config, oauthAgentBaseUrl, calls, network>>

-----------------------------------------------------------------------------
(* Bounds of the model *)

\* the configured base URL ends with at most this many "/"
MaxTrailingSlashes == 2
\* a page URL's query string has at most this many "&"-separated segments
MaxParams == 3
\* a URLSearchParams handed directly to endLogin has at most this many entries
MaxEndLoginParams == 1
\* the calls that may be in flight on one client at once
MaxInFlight == 2

\* call slots of the sequential specification
Slots == {1}

-----------------------------------------------------------------------------
(* Values *)

Absent == "undefined"

Origin == <<"https://example.com">>

Slashes(n) == [i \in 1..n |-> "/"]

\* <host>, or <host>/<app-anonymous-endpoint>/<token-handler-app-id>
BaseStems == {Origin, Origin \o <<"/", "apps", "/", "oauth-agent1">>}

BaseUrls == {stem \o Slashes(n) : stem \in BaseStems, n \in 0..MaxTrailingSlashes}

Configurations == [oauthAgentBaseUrl : BaseUrls]

PathRefresh == <<"refresh">>
PathSession == <<"session">>
PathLoginStart == <<"login", "/", "start">>
PathLoginEnd == <<"login", "/", "end">>
PathLogout == <<"logout">>

ParamKeys == {"state", "code", "error", "response", "foo"}
ParamValues == {"a", "b"}

\* one "&"-separated piece of a query string: key=value, or nothing at all
EmptySegment == [empty |-> TRUE, k |-> "", v |-> ""]
Segments == [empty : {FALSE}, k : ParamKeys, v : ParamValues] \cup {EmptySegment}

Queries == UNION {[1..n -> Segments] : n \in 0..MaxParams}

UnparseableUrl == [parseable |-> FALSE, query |-> <<>>]
NoUrl == UnparseableUrl
PageUrls == [parseable : {TRUE}, query : Queries] \cup {UnparseableUrl}

Entries == [k : ParamKeys, v : ParamValues]
EndLoginRequests == [searchParams : UNION {[1..n -> Entries] : n \in 0..MaxEndLoginParams}]

ExtraKeys == {"scope", "ui_locales", "k=%"}
ExtraValues == {"sv", "a&b", "x y", "1+1"}
ExtraEntries == [k : ExtraKeys, v : ExtraValues]
\* an object's own properties in insertion order, keys unique
ExtraParameters ==
    {<<>>} \cup {<<e>> : e \in ExtraEntries}
           \cup {p \in ExtraEntries \X ExtraEntries : p[1].k # p[2].k}
\* startLogin() called without a request
NoStartLoginRequest == [given |-> FALSE, extraAuthorizationParameters |-> <<>>]
StartLoginRequests ==
    {NoStartLoginRequest}
        \cup [given : {TRUE}, extraAuthorizationParameters : ExtraParameters]

\* the characters of a key or a value; a word without a reserved character is
\* one token
Chars(s) ==
    CASE s = "k=%" -> <<"k", "=", "%">>
      [] s = "a&b" -> <<"a", "&", "b">>
      [] s = "x y" -> <<"x", " ", "y">>
      [] s = "1+1" -> <<"1", "+", "1">>
      [] OTHER -> <<s>>

-----------------------------------------------------------------------------
(* The Agent's answers *)

Statuses == {200, 400, 500}

statusText(status) ==
    CASE status = 200 -> "OK"
      [] status = 400 -> "Bad Request"
      [] OTHER -> "Internal Server Error"

JsonContentTypes == {"application/json", "application/json; charset=utf-8"}
ContentTypes == JsonContentTypes \cup {"text/html", Absent}

EmptyObject ==
    [is_logged_in |-> Absent, id_token_claims |-> Absent,
     access_token_expires_in |-> Absent, authorization_url |-> Absent,
     logout_url |-> Absent, error_code |-> Absent, detailed_error |-> Absent]

SessionPayloads ==
    {[EmptyObject EXCEPT !.is_logged_in = l, !.id_token_claims = c,
                         !.access_token_expires_in = e] :
        l \in {"true", "false"}, c \in {Absent, "null", "{sub:x}"}, e \in {Absent, "300"}}
RefreshPayloads == {[EmptyObject EXCEPT !.access_token_expires_in = "300"]}
StartLoginPayloads == {[EmptyObject EXCEPT !.authorization_url = "https://idp.example.com/authz"]}
LogoutPayloads == {[EmptyObject EXCEPT !.logout_url = "https://idp.example.com/logout"]}
ErrorPayloads ==
    {[EmptyObject EXCEPT !.error_code = ec, !.detailed_error = d] :
        ec \in {Absent, "invalid_request"}, d \in {Absent, "bad param"}}

Payloads ==
    SessionPayloads \cup RefreshPayloads \cup StartLoginPayloads
        \cup LogoutPayloads \cup ErrorPayloads

NoBody == [state |-> "none", json |-> EmptyObject]
MalformedBody == [state |-> "malformed", json |-> EmptyObject]
Bodies == [state : {"json"}, json : Payloads] \cup {MalformedBody}

Responses ==
    {[status |-> st, statusText |-> statusText(st), contentType |-> ct, body |-> b] :
        st \in Statuses, ct \in ContentTypes, b \in Bodies}

NoResponse == [status |-> 0, statusText |-> "", contentType |-> Absent, body |-> NoBody]

-----------------------------------------------------------------------------
(* Outcomes of a call *)

NoResult == [none |-> Absent]

NoError == [name |-> "none", status |-> 0, code |-> Absent, details |-> Absent]

\* what new URL(), window.fetch() and response.json() throw themselves
TypeError == [name |-> "TypeError", status |-> 0, code |-> Absent, details |-> Absent]
SyntaxError == [name |-> "SyntaxError", status |-> 0, code |-> Absent, details |-> Absent]

OAuthAgentRemoteError(status, code, details) ==
    [name |-> "OAuthAgentRemoteError", status |-> status, code |-> code, details |-> details]

IdleCall ==
    [op |-> "none", pc |-> "idle", then |-> "none", pageUrl |-> NoUrl,
     request |-> NoStartLoginRequest, sent |-> 0,
     response |-> NoResponse, result |-> NoResult, error |-> NoError]

-----------------------------------------------------------------------------
(* Pure functions of the client *)

EndsWith(s, t) == Len(s) > 0 /\ s[Len(s)] = t

\* constructor: the base URL gets a "/" appended unless it ends with one
Constructor(cfg) ==
    IF EndsWith(cfg.oauthAgentBaseUrl, "/")
    THEN cfg.oauthAgentBaseUrl
    ELSE cfg.oauthAgentBaseUrl \o <<"/">>

\* URL.searchParams: the entries of the query string, empty segments skipped
RECURSIVE searchParams(_)
searchParams(query) ==
    IF query = <<>> THEN <<>>
    ELSE IF Head(query).empty THEN searchParams(Tail(query))
    ELSE <<[k |-> Head(query).k, v |-> Head(query).v]>> \o searchParams(Tail(query))

\* URLSearchParams.has
has(params, name) == \E i \in 1..Len(params) : params[i].k = name

isOAuthResponse_NoPlainRule(url) ==
    LET params == searchParams(url.query)
        isJarmOAuthResponse == has(params, "response") /\ Len(params) = 1
        isErrorOAuthResponse == has(params, "error") /\ has(params, "state")
    IN  isJarmOAuthResponse \/ isErrorOAuthResponse

isOAuthResponse_NoErrorRule(url) ==
    LET params == searchParams(url.query)
        isPlainOAuthResponse == has(params, "state") /\ has(params, "code")
        isJarmOAuthResponse == has(params, "response") /\ Len(params) = 1
    IN  isPlainOAuthResponse \/ isJarmOAuthResponse

isOAuthResponse_NoJarmRule(url) ==
    LET params == searchParams(url.query)
        isPlainOAuthResponse == has(params, "state") /\ has(params, "code")
        isErrorOAuthResponse == has(params, "error") /\ has(params, "state")
    IN  isPlainOAuthResponse \/ isErrorOAuthResponse

isOAuthResponse_LooseJarm(url) ==
    LET params == searchParams(url.query)
        isPlainOAuthResponse == has(params, "state") /\ has(params, "code")
        isJarmOAuthResponse == has(params, "response")
        isErrorOAuthResponse == has(params, "error") /\ has(params, "state")
    IN  isPlainOAuthResponse \/ isJarmOAuthResponse \/ isErrorOAuthResponse

isOAuthResponse_CodeAlone(url) ==
    LET params == searchParams(url.query)
        isPlainOAuthResponse == has(params, "code")
        isJarmOAuthResponse == has(params, "response") /\ Len(params) = 1
        isErrorOAuthResponse == has(params, "error") /\ has(params, "state")
    IN  isPlainOAuthResponse \/ isJarmOAuthResponse \/ isErrorOAuthResponse

isOAuthResponse(url) ==
    LET params == searchParams(url.query)
        isPlainOAuthResponse == has(params, "state") /\ has(params, "code")
        isJarmOAuthResponse == has(params, "response") /\ Len(params) = 1
        isErrorOAuthResponse == has(params, "error") /\ has(params, "state")
    IN  isPlainOAuthResponse \/ isJarmOAuthResponse \/ isErrorOAuthResponse

\* toUrlSearchParams: no data gives an empty URLSearchParams
toUrlSearchParams(request) ==
    IF ~request.given THEN <<>> ELSE request.extraAuthorizationParameters

NoContent == [present |-> FALSE, params |-> <<>>]
Content(params) == [present |-> TRUE, params |-> params]

\* application/x-www-form-urlencoded: one character of a name or a value
percentEncode(t) ==
    CASE t = " " -> <<"+">>
      [] t = "&" -> <<"%", "2", "6">>
      [] t = "=" -> <<"%", "3", "D">>
      [] t = "%" -> <<"%", "2", "5">>
      [] t = "+" -> <<"%", "2", "B">>
      [] t = "?" -> <<"%", "3", "F">>
      [] OTHER -> <<t>>

RECURSIVE encodeString(_)
encodeString(chars) ==
    IF chars = <<>> THEN <<>>
    ELSE percentEncode(Head(chars)) \o encodeString(Tail(chars))

RECURSIVE serialize_Unencoded(_)
serialize_Unencoded(params) ==
    IF params = <<>> THEN <<>>
    ELSE Chars(Head(params).k) \o <<"=">> \o Chars(Head(params).v)
             \o (IF Len(params) > 1 THEN <<"&">> \o serialize_Unencoded(Tail(params))
                  ELSE <<>>)

\* the body window.fetch sends for a URLSearchParams: name=value joined by "&"
RECURSIVE serialize(_)
serialize(params) ==
    IF params = <<>> THEN <<>>
    ELSE encodeString(Chars(Head(params).k)) \o <<"=">>
             \o encodeString(Chars(Head(params).v))
             \o (IF Len(params) > 1 THEN <<"&">> \o serialize(Tail(params)) ELSE <<>>)

\* the request fetch() hands to window.fetch
Request_FormAlways(c, method, path, content) ==
    [c |-> c,
     method |-> method,
     path |-> path,
     url |-> oauthAgentBaseUrl \o path,
     accept |-> "application/json",
     tokenHandlerVersion |-> "1",
     contentType |-> "application/x-www-form-urlencoded",
     credentials |-> "include",
     mode |-> "cors",
     body |-> IF content.present THEN content ELSE NoContent,
     wire |-> IF content.present THEN serialize(content.params) ELSE <<>>]

Request(c, method, path, content) ==
    [c |-> c,
     method |-> method,
     path |-> path,
     url |-> oauthAgentBaseUrl \o path,
     accept |-> "application/json",
     tokenHandlerVersion |-> "1",
     contentType |-> IF path = PathLoginStart \/ path = PathLoginEnd
                     THEN "application/x-www-form-urlencoded" ELSE Absent,
     credentials |-> "include",
     mode |-> "cors",
     body |-> IF content.present THEN content ELSE NoContent,
     wire |-> IF content.present THEN serialize(content.params) ELSE <<>>]

\* response.ok
ok(response) == response.status >= 200 /\ response.status <= 299

(* The objects the operations return *)

refreshResponse_DefaultExpiry(json) ==
    [accessTokenExpiresIn |-> IF json.access_token_expires_in = Absent
                              THEN "0" ELSE json.access_token_expires_in]

refreshResponse(json) ==
    [accessTokenExpiresIn |-> json.access_token_expires_in]

sessionResponse_OncePerClient(json) ==
    [isLoggedIn |-> IF \E d \in DOMAIN calls : calls[d].pc = "resolved"
                    THEN "false" ELSE json.is_logged_in,
     idTokenClaims |-> json.id_token_claims,
     accessTokenExpiresIn |-> json.access_token_expires_in]

sessionResponse_DropExpiry(json) ==
    [isLoggedIn |-> json.is_logged_in,
     idTokenClaims |-> json.id_token_claims,
     accessTokenExpiresIn |-> Absent]

sessionResponse(json) ==
    [isLoggedIn |-> json.is_logged_in,
     idTokenClaims |-> json.id_token_claims,
     accessTokenExpiresIn |-> json.access_token_expires_in]

startLoginResponse(json) ==
    [authorizationUrl |-> json.authorization_url]

endLoginResponse(json) ==
    [isLoggedIn |-> json.is_logged_in,
     idTokenClaims |-> json.id_token_claims,
     accessTokenExpiresIn |-> json.access_token_expires_in]

logoutResponse(json) ==
    [logoutUrl |-> json.logout_url]

\* the statements of an operation after its await of fetch()
Continuation(then, json) ==
    CASE then = "refresh" -> refreshResponse(json)
      [] then = "session" -> sessionResponse(json)
      [] then = "startLogin" -> startLoginResponse(json)
      [] then = "endLogin" -> endLoginResponse(json)
      [] then = "logout" -> logoutResponse(json)

\* fetch(): is the body of a failed response parsed
isJsonErrorResponse_AnyJson(response) == response.contentType \in JsonContentTypes

isJsonErrorResponse(response) == response.contentType = "application/json"

\* fetch(): the error of a failed response whose body was parsed
jsonError(response, errorResponse) ==
    OAuthAgentRemoteError(response.status, errorResponse.error_code,
                          errorResponse.detailed_error)

serverError_StatusTextAsCode(response) ==
    OAuthAgentRemoteError(response.status, response.statusText, Absent)

\* fetch(): the error of a failed response whose body is not parsed
serverError(response) ==
    OAuthAgentRemoteError(response.status, "server_error", response.statusText)

-----------------------------------------------------------------------------
(* The state machine *)

Init ==
    /\ config \in Configurations
    /\ oauthAgentBaseUrl = Constructor(config)
    /\ calls = [c \in Slots |-> IdleCall]
    /\ network = {}

\* the requests of call c that are on their way
RequestsOf(c) == {r \in network : r.c = c}

Frame(op, then, pageUrl) ==
    [op |-> op, then |-> then, pageUrl |-> pageUrl, request |-> NoStartLoginRequest]

\* fetch() from its entry to its await of window.fetch: the request goes out
fetch(c, frame, method, path, content) ==
    /\ network' = network \cup {Request(c, method, path, content)}
    /\ calls' = [calls EXCEPT ![c] =
                    [IdleCall EXCEPT !.op = frame.op, !.then = frame.then,
                                     !.pageUrl = frame.pageUrl,
                                     !.request = frame.request, !.pc = "fetch",
                                     !.sent = calls[c].sent + 1]]
    /\ UNCHANGED <<config, oauthAgentBaseUrl>>

sessionCall(c, op, pageUrl) ==
    fetch(c, Frame(op, "session", pageUrl), "GET", PathSession, NoContent)

endLoginCall_OAuthParametersOnly(c, op, pageUrl, request) ==
    fetch(c, Frame(op, "endLogin", pageUrl), "POST", PathLoginEnd,
          Content(SelectSeq(request.searchParams,
                            LAMBDA e : e.k \in {"state", "code", "error", "response"})))

endLoginCall(c, op, pageUrl, request) ==
    fetch(c, Frame(op, "endLogin", pageUrl), "POST", PathLoginEnd,
          Content(request.searchParams))

refresh_Get(c) ==
    /\ calls[c].pc = "idle"
    /\ fetch(c, Frame("refresh", "refresh", NoUrl), "GET", PathRefresh, NoContent)

refresh(c) ==
    /\ calls[c].pc = "idle"
    /\ fetch(c, Frame("refresh", "refresh", NoUrl), "POST", PathRefresh, NoContent)

session(c) ==
    /\ calls[c].pc = "idle"
    /\ sessionCall(c, "session", NoUrl)

startLogin(c, request) ==
    /\ calls[c].pc = "idle"
    /\ fetch(c, [Frame("startLogin", "startLogin", NoUrl) EXCEPT !.request = request],
             "POST", PathLoginStart, Content(toUrlSearchParams(request)))

endLogin(c, request) ==
    /\ calls[c].pc = "idle"
    /\ endLoginCall(c, "endLogin", NoUrl, request)

logout(c) ==
    /\ calls[c].pc = "idle"
    /\ fetch(c, Frame("logout", "logout", NoUrl), "POST", PathLogout, NoContent)

\* onPageLoad: new URL(pageUrl) throws, or the call is handed to endLogin or session
onPageLoad_FallbackToSession(c, pageUrl) ==
    /\ calls[c].pc = "idle"
    /\ IF pageUrl.parseable /\ isOAuthResponse(pageUrl)
       THEN endLoginCall(c, "onPageLoad", pageUrl,
                         [searchParams |-> searchParams(pageUrl.query)])
       ELSE sessionCall(c, "onPageLoad", pageUrl)

onPageLoad(c, pageUrl) ==
    /\ calls[c].pc = "idle"
    /\ IF ~pageUrl.parseable
       THEN /\ calls' = [calls EXCEPT ![c] =
                            [IdleCall EXCEPT !.op = "onPageLoad", !.pc = "rejected",
                                             !.pageUrl = pageUrl, !.error = TypeError]]
            /\ UNCHANGED <<config, oauthAgentBaseUrl, network>>
       ELSE IF isOAuthResponse(pageUrl)
            THEN endLoginCall(c, "onPageLoad", pageUrl,
                              [searchParams |-> searchParams(pageUrl.query)])
            ELSE sessionCall(c, "onPageLoad", pageUrl)

\* the request reaches the Agent
AgentReceives(c) ==
    /\ calls[c].pc = "fetch"
    /\ RequestsOf(c) # {}
    /\ network' = network \ RequestsOf(c)
    /\ calls' = [calls EXCEPT ![c].pageUrl = NoUrl,
                              ![c].request = NoStartLoginRequest]
    /\ UNCHANGED <<config, oauthAgentBaseUrl>>

FetchRejects_Retry(c) ==
    /\ calls[c].pc = "fetch"
    /\ IF calls[c].sent < 2
       THEN /\ network' = network
            /\ calls' = [calls EXCEPT ![c].sent = calls[c].sent + 1]
       ELSE /\ network' = network \ RequestsOf(c)
            /\ calls' = [calls EXCEPT ![c].pc = "rejected", ![c].pageUrl = NoUrl,
                                      ![c].request = NoStartLoginRequest,
                                      ![c].error = TypeError]
    /\ UNCHANGED <<config, oauthAgentBaseUrl>>

\* window.fetch rejects: no response was received
FetchRejects(c) ==
    /\ calls[c].pc = "fetch"
    /\ network' = network \ RequestsOf(c)
    /\ calls' = [calls EXCEPT ![c].pc = "rejected", ![c].pageUrl = NoUrl,
                              ![c].request = NoStartLoginRequest,
                              ![c].error = TypeError]
    /\ UNCHANGED <<config, oauthAgentBaseUrl>>

\* window.fetch resolves with the Agent's response; fetch() runs on to its await
\* of response.json(), or throws for a failed response it does not parse
FetchResolves(c, response) ==
    /\ calls[c].pc = "fetch"
    /\ RequestsOf(c) = {}
    /\ calls' = [calls EXCEPT
                    ![c].response = response,
                    ![c].pc = IF ok(response) THEN "json"
                              ELSE IF isJsonErrorResponse(response) THEN "errorJson"
                              ELSE "rejected",
                    ![c].error = IF ~ok(response) /\ ~isJsonErrorResponse(response)
                                 THEN serverError(response) ELSE NoError]
    /\ UNCHANGED <<config, oauthAgentBaseUrl, network>>

JsonSettles_SharedResponse(c) ==
    LET body == calls[1].response.body
    IN  /\ calls[c].pc \in {"json", "errorJson"}
        /\ calls' = [calls EXCEPT
                        ![c].pc = IF body.state = "json" /\ calls[c].pc = "json"
                                  THEN "resolved" ELSE "rejected",
                        ![c].result = IF body.state = "json" /\ calls[c].pc = "json"
                                      THEN Continuation(calls[c].then, body.json)
                                      ELSE NoResult,
                        ![c].error = IF body.state # "json" THEN SyntaxError
                                     ELSE IF calls[c].pc = "errorJson"
                                     THEN jsonError(calls[c].response, body.json)
                                     ELSE NoError]
        /\ UNCHANGED <<config, oauthAgentBaseUrl, network>>

\* response.json() settles; fetch() returns or throws and the operation finishes
JsonSettles(c) ==
    LET body == calls[c].response.body
    IN  /\ calls[c].pc \in {"json", "errorJson"}
        /\ calls' = [calls EXCEPT
                        ![c].pc = IF body.state = "json" /\ calls[c].pc = "json"
                                  THEN "resolved" ELSE "rejected",
                        ![c].result = IF body.state = "json" /\ calls[c].pc = "json"
                                      THEN Continuation(calls[c].then, body.json)
                                      ELSE NoResult,
                        ![c].error = IF body.state # "json" THEN SyntaxError
                                     ELSE IF calls[c].pc = "errorJson"
                                     THEN jsonError(calls[c].response, body.json)
                                     ELSE NoError]
        /\ UNCHANGED <<config, oauthAgentBaseUrl, network>>

\* the caller takes the outcome; the next call on the client may start
Return(c) ==
    /\ calls[c].pc \in {"resolved", "rejected"}
    /\ calls' = [calls EXCEPT ![c] = IdleCall]
    /\ UNCHANGED <<config, oauthAgentBaseUrl, network>>

\* the calls the SPA may make on the client, and the steps of the calls under way
Next ==
    \E c \in DOMAIN calls :
        \/ /\ calls[c].pc = "idle"
           /\ \/ refresh(c)
              \/ session(c)
              \/ \E request \in StartLoginRequests : startLogin(c, request)
              \/ \E request \in EndLoginRequests : endLogin(c, request)
              \/ logout(c)
              \/ \E pageUrl \in PageUrls : onPageLoad(c, pageUrl)
        \/ /\ calls[c].pc = "fetch"
           /\ \/ AgentReceives(c)
              \/ FetchRejects(c)
              \/ \E response \in Responses : FetchResolves(c, response)
        \/ JsonSettles(c)
        \/ Return(c)

Spec == Init /\ [][Next]_vars

-----------------------------------------------------------------------------
(* Several calls in flight on one client *)

\* one call record per async call under way
ConcurrentSlots == 1..MaxInFlight

ConcurrentConfigurations ==
    {cfg \in Configurations : cfg.oauthAgentBaseUrl = Origin}

ConcurrentPageUrls ==
    {url \in PageUrls :
        \/ ~url.parseable
        \/ url.query = <<>>
        \/ url.query = <<[empty |-> FALSE, k |-> "state", v |-> "a"],
                         [empty |-> FALSE, k |-> "code", v |-> "a"]>>}

ConcurrentResponses ==
    {response \in Responses :
        \/ /\ response.status = 200
           /\ response.contentType = "application/json"
           /\ response.body.state = "json"
           /\ response.body.json \in SessionPayloads
           /\ response.body.json.access_token_expires_in = "300"
           /\ response.body.json.is_logged_in = "true"
           /\ response.body.json.id_token_claims = "{sub:x}"
        \/ /\ response.status = 500
           /\ response.contentType = "application/json"
           /\ response.body.state = "json"
           /\ response.body.json.error_code = "invalid_request"
           /\ response.body.json.detailed_error = Absent
        \/ /\ response.status = 500
           /\ response.contentType = "text/html"
           /\ response.body = MalformedBody}

InitConcurrent ==
    /\ config \in ConcurrentConfigurations
    /\ oauthAgentBaseUrl = Constructor(config)
    /\ calls = [c \in ConcurrentSlots |-> IdleCall]
    /\ network = {}

\* any call may start while others are under way, and the steps of the calls
\* under way interleave in any order
NextConcurrent ==
    \E c \in DOMAIN calls :
        \/ /\ calls[c].pc = "idle"
           /\ \/ refresh(c)
              \/ session(c)
              \/ startLogin(c, NoStartLoginRequest)
              \/ endLogin(c, [searchParams |-> <<>>])
              \/ logout(c)
              \/ \E pageUrl \in ConcurrentPageUrls : onPageLoad(c, pageUrl)
        \/ /\ calls[c].pc = "fetch"
           /\ \/ AgentReceives(c)
              \/ FetchRejects(c)
              \/ \E response \in ConcurrentResponses : FetchResolves(c, response)
        \/ JsonSettles(c)
        \/ Return(c)

SpecConcurrent == InitConcurrent /\ [][NextConcurrent]_vars

-----------------------------------------------------------------------------
(* Vocabulary of the properties *)

\* the query string holds a parameter of this name
QueryContains(query, name) ==
    \E i \in 1..Len(query) : ~query[i].empty /\ query[i].k = name

\* the number of parameters the query string holds
ParamCount(query) == Cardinality({i \in 1..Len(query) : ~query[i].empty})

UrlEndsWith(url, path) ==
    /\ Len(url) >= Len(path)
    /\ SubSeq(url, Len(url) - Len(path) + 1, Len(url)) = path

ToLoginEnd(r) == UrlEndsWith(r.url, PathLoginEnd)
ToSession(r) == UrlEndsWith(r.url, PathSession)

\* call c is an onPageLoad of a parseable page URL whose request is under way
PageLoading(c) == calls[c].op = "onPageLoad" /\ calls[c].pageUrl.parseable

\* call c has one request under way, and it goes to login/end
IssuesLoginEnd(c) ==
    /\ calls[c].pc = "fetch"
    /\ Cardinality(RequestsOf(c)) = 1
    /\ \A r \in RequestsOf(c) : ToLoginEnd(r) /\ ~ToSession(r)

\* call c has one request under way, and it goes to session
IssuesSession(c) ==
    /\ calls[c].pc = "fetch"
    /\ Cardinality(RequestsOf(c)) = 1
    /\ \A r \in RequestsOf(c) : ToSession(r) /\ ~ToLoginEnd(r)

PlainOrError(query) ==
    \/ QueryContains(query, "state") /\ QueryContains(query, "code")
    \/ QueryContains(query, "state") /\ QueryContains(query, "error")

-----------------------------------------------------------------------------
(* Redirect classification *)

\* C1: a page URL whose query string holds both a state and a code parameter,
\* whatever else it holds, makes onPageLoad issue its request to login/end and
\* never to session.
C1_StateAndCodeEndLogin ==
    \A c \in DOMAIN calls :
        ( /\ PageLoading(c)
          /\ QueryContains(calls[c].pageUrl.query, "state")
          /\ QueryContains(calls[c].pageUrl.query, "code") )
        => IssuesLoginEnd(c)

C1_Witness ==
    \E c \in DOMAIN calls :
        /\ PageLoading(c)
        /\ QueryContains(calls[c].pageUrl.query, "state")
        /\ QueryContains(calls[c].pageUrl.query, "code")
        /\ QueryContains(calls[c].pageUrl.query, "foo")
        /\ IssuesLoginEnd(c)

\* C2: a page URL whose query string holds both a state and an error parameter,
\* whatever else it holds, makes onPageLoad issue its request to login/end.
C2_StateAndErrorEndLogin ==
    \A c \in DOMAIN calls :
        ( /\ PageLoading(c)
          /\ QueryContains(calls[c].pageUrl.query, "state")
          /\ QueryContains(calls[c].pageUrl.query, "error") )
        => IssuesLoginEnd(c)

C2_Witness ==
    \E c \in DOMAIN calls :
        /\ PageLoading(c)
        /\ QueryContains(calls[c].pageUrl.query, "state")
        /\ QueryContains(calls[c].pageUrl.query, "error")
        /\ ~QueryContains(calls[c].pageUrl.query, "code")
        /\ IssuesLoginEnd(c)

\* C3: a page URL whose query string holds exactly one parameter, named response
\* (a JARM response), makes onPageLoad issue its request to login/end.
C3_JarmEndLogin ==
    \A c \in DOMAIN calls :
        ( /\ PageLoading(c)
          /\ ParamCount(calls[c].pageUrl.query) = 1
          /\ QueryContains(calls[c].pageUrl.query, "response") )
        => IssuesLoginEnd(c)

C3_Witness ==
    \E c \in DOMAIN calls :
        /\ PageLoading(c)
        /\ ParamCount(calls[c].pageUrl.query) = 1
        /\ QueryContains(calls[c].pageUrl.query, "response")
        /\ IssuesLoginEnd(c)

\* C4: the JARM rule is strict: a page URL whose query string holds response and
\* at least one more parameter entry makes onPageLoad issue its request to
\* session, unless the query string holds state with code or state with error,
\* and then the request goes to login/end.
C4_JarmStrict ==
    \A c \in DOMAIN calls :
        ( /\ PageLoading(c)
          /\ QueryContains(calls[c].pageUrl.query, "response")
          /\ ParamCount(calls[c].pageUrl.query) >= 2 )
        => IF PlainOrError(calls[c].pageUrl.query)
           THEN IssuesLoginEnd(c)
           ELSE IssuesSession(c)

C4_Witness ==
    \E c \in DOMAIN calls :
        /\ PageLoading(c)
        /\ QueryContains(calls[c].pageUrl.query, "response")
        /\ QueryContains(calls[c].pageUrl.query, "state")
        /\ ParamCount(calls[c].pageUrl.query) = 2
        /\ IssuesSession(c)

\* C5: a page URL whose query string holds, of state, code, error and response,
\* only state, or only code, or none of them (the empty query string too), makes
\* onPageLoad issue its request to session and never to login/end.
C5_OtherwiseSession ==
    \A c \in DOMAIN calls :
        ( /\ PageLoading(c)
          /\ {k \in {"state", "code", "error", "response"} :
                 QueryContains(calls[c].pageUrl.query, k)}
             \in {{"state"}, {"code"}, {}} )
        => IssuesSession(c)

C5_Witness ==
    \E c \in DOMAIN calls :
        /\ PageLoading(c)
        /\ QueryContains(calls[c].pageUrl.query, "code")
        /\ QueryContains(calls[c].pageUrl.query, "foo")
        /\ ~QueryContains(calls[c].pageUrl.query, "state")
        /\ IssuesSession(c)

-----------------------------------------------------------------------------
(* Base URL *)

RECURSIVE StripTrailingSlashes(_)
StripTrailingSlashes(s) ==
    IF EndsWith(s, "/") THEN StripTrailingSlashes(SubSeq(s, 1, Len(s) - 1)) ELSE s

\* C6: for every configured base URL, ending with "/" or not, and after any
\* calls on the client, every request targets the base URL, exactly one "/" and
\* the endpoint path (no slash missing, none doubled), and the base URL stored at
\* construction is the one the constructor made of the configuration.
C6_ExactlyOneSlash ==
    /\ oauthAgentBaseUrl = Constructor(config)
    /\ \A r \in network :
           r.url = StripTrailingSlashes(config.oauthAgentBaseUrl) \o <<"/">> \o r.path

-----------------------------------------------------------------------------
(* Failed responses *)

Settled(c) == calls[c].pc \in {"resolved", "rejected"}

\* call c got a response, and its status is outside 200..299
Failed(c) == calls[c].response # NoResponse /\ ~(calls[c].response.status \in 200..299)

\* C7: whenever the Agent answers an operation with a non-2xx status and a JSON
\* content type, the call rejects with a RemoteError of the response's status,
\* the payload's error_code as code and the payload's detailed_error as details
\* (absent when the payload has none), and returns no result.
C7_JsonFailure ==
    \A c \in DOMAIN calls :
        ( /\ Settled(c)
          /\ Failed(c)
          /\ calls[c].response.contentType \in JsonContentTypes
          /\ calls[c].response.body.state = "json" )
        => /\ calls[c].pc = "rejected"
           /\ calls[c].result = NoResult
           /\ calls[c].error =
                  [name |-> "OAuthAgentRemoteError",
                   status |-> calls[c].response.status,
                   code |-> calls[c].response.body.json.error_code,
                   details |-> calls[c].response.body.json.detailed_error]

-----------------------------------------------------------------------------
(* Successful responses *)

\* the field of an object, undefined when the object has none of that name
Field(object, name) == IF name \in DOMAIN object THEN object[name] ELSE Absent

\* C9: on a 2xx response session, endLogin and onPageLoad return an object whose
\* isLoggedIn, idTokenClaims and accessTokenExpiresIn are the payload's
\* is_logged_in, id_token_claims and access_token_expires_in, values unchanged;
\* refresh returns the payload's access_token_expires_in, logout its logout_url
\* and startLogin its authorization_url.
C9_FieldsPassThrough ==
    \A c \in DOMAIN calls :
        calls[c].pc = "resolved" =>
            LET json == calls[c].response.body.json
                result == calls[c].result
            IN  /\ calls[c].response.status \in 200..299
                /\ calls[c].op \in {"session", "endLogin", "onPageLoad"} =>
                       result = [isLoggedIn |-> json.is_logged_in,
                                 idTokenClaims |-> json.id_token_claims,
                                 accessTokenExpiresIn |-> json.access_token_expires_in]
                /\ calls[c].op = "refresh" =>
                       result = [accessTokenExpiresIn |-> json.access_token_expires_in]
                /\ calls[c].op = "logout" =>
                       result = [logoutUrl |-> json.logout_url]
                /\ calls[c].op = "startLogin" =>
                       result = [authorizationUrl |-> json.authorization_url]

C9_Witness ==
    \E c \in DOMAIN calls :
        /\ calls[c].pc = "resolved"
        /\ calls[c].op = "onPageLoad"
        /\ calls[c].then = "endLogin"
        /\ calls[c].response.body.json.id_token_claims = "{sub:x}"
        /\ calls[c].result = [isLoggedIn |-> "true", idTokenClaims |-> "{sub:x}",
                              accessTokenExpiresIn |-> "300"]

OptionalFields == {"idTokenClaims", "accessTokenExpiresIn", "csrfToken", "logoutUrl"}

\* the payload field an optional field of a returned object comes from
SourceField(name) ==
    CASE name = "idTokenClaims" -> "id_token_claims"
      [] name = "accessTokenExpiresIn" -> "access_token_expires_in"
      [] name = "csrfToken" -> "csrf_token"
      [] name = "logoutUrl" -> "logout_url"

\* C10: for every operation and 2xx payload, an optional field of the returned
\* object (idTokenClaims, accessTokenExpiresIn, csrfToken, logoutUrl) is present
\* only if the payload had the corresponding field: none is invented or given a
\* default.
C10_NoInventedField ==
    \A c \in DOMAIN calls :
        calls[c].pc = "resolved" =>
            \A name \in OptionalFields :
                Field(calls[c].result, name) # Absent
                    => Field(calls[c].response.body.json, SourceField(name)) # Absent

C10_Witness ==
    \E c \in DOMAIN calls :
        /\ calls[c].pc = "resolved"
        /\ calls[c].op = "refresh"
        /\ calls[c].response.body.json.access_token_expires_in = Absent
        /\ calls[c].response.body.json.is_logged_in # Absent
        /\ Field(calls[c].result, "accessTokenExpiresIn") = Absent

-----------------------------------------------------------------------------
(* Form encoding *)

HexPairs == {<<"2", "6">>, <<"3", "D">>, <<"2", "5">>, <<"2", "B">>, <<"3", "F">>}

HexChar(pair) ==
    CASE pair = <<"2", "6">> -> "&"
      [] pair = <<"3", "D">> -> "="
      [] pair = <<"2", "5">> -> "%"
      [] pair = <<"2", "B">> -> "+"
      [] pair = <<"3", "F">> -> "?"

\* a name or a value of a form body decoded: "+" is a space, %XX a character
RECURSIVE DecodeString(_)
DecodeString(chars) ==
    IF chars = <<>> THEN <<>>
    ELSE IF Head(chars) = "%" /\ Len(chars) >= 3 /\ <<chars[2], chars[3]>> \in HexPairs
    THEN <<HexChar(<<chars[2], chars[3]>>)>> \o DecodeString(SubSeq(chars, 4, Len(chars)))
    ELSE IF Head(chars) = "+" THEN <<" ">> \o DecodeString(Tail(chars))
    ELSE <<Head(chars)>> \o DecodeString(Tail(chars))

\* the position of the first t in chars, 0 when there is none
First(chars, t) ==
    IF \E i \in 1..Len(chars) : chars[i] = t
    THEN CHOOSE i \in 1..Len(chars) : chars[i] = t /\ \A j \in 1..(i - 1) : chars[j] # t
    ELSE 0

\* one "&"-separated piece of a form body decoded: name up to the first "="
DecodePair(piece) ==
    LET eq == First(piece, "=")
    IN  IF eq = 0 THEN [k |-> DecodeString(piece), v |-> <<>>]
        ELSE [k |-> DecodeString(SubSeq(piece, 1, eq - 1)),
              v |-> DecodeString(SubSeq(piece, eq + 1, Len(piece)))]

\* a form body decoded: its name/value pairs in order, empty pieces skipped
RECURSIVE DecodeForm(_)
DecodeForm(wire) ==
    LET amp == First(wire, "&")
        piece == IF amp = 0 THEN wire ELSE SubSeq(wire, 1, amp - 1)
        rest == IF amp = 0 THEN <<>> ELSE SubSeq(wire, amp + 1, Len(wire))
    IN  IF wire = <<>> THEN <<>>
        ELSE (IF piece = <<>> THEN <<>> ELSE <<DecodePair(piece)>>) \o DecodeForm(rest)

\* the name/value pairs of a parameter list, character by character
PairsOf(params) == {[k |-> Chars(params[i].k), v |-> Chars(params[i].v)] : i \in 1..Len(params)}

SeqRange(seq) == {seq[i] : i \in 1..Len(seq)}

\* C11: for every extra-parameters mapping passed to startLogin, keys and values
\* with "&", "=", space, "%" or "+" included, the form-encoded body sent to
\* login/start decodes to exactly the mapping's key/value pairs, and the body is
\* empty when no parameters are given.
C11_FormRoundTrip ==
    \A c \in DOMAIN calls :
        (calls[c].op = "startLogin" /\ calls[c].pc = "fetch" /\ RequestsOf(c) # {})
        => \A r \in RequestsOf(c) :
               /\ UrlEndsWith(r.url, PathLoginStart)
               /\ r.body.present
               /\ SeqRange(DecodeForm(r.wire))
                      = PairsOf(calls[c].request.extraAuthorizationParameters)
               /\ Len(DecodeForm(r.wire))
                      = Len(calls[c].request.extraAuthorizationParameters)
               /\ (~calls[c].request.given
                     \/ calls[c].request.extraAuthorizationParameters = <<>>)
                      => r.wire = <<>>

C11_Witness ==
    \E c \in DOMAIN calls :
        /\ calls[c].op = "startLogin"
        /\ calls[c].request.given
        /\ Len(calls[c].request.extraAuthorizationParameters) = 2
        /\ calls[c].request.extraAuthorizationParameters[1].k = "k=%"
        /\ calls[c].request.extraAuthorizationParameters[2].v = "a&b"
        /\ \E r \in RequestsOf(c) :
               /\ "%" \in SeqRange(r.wire)
               /\ SeqRange(DecodeForm(r.wire))
                      = PairsOf(calls[c].request.extraAuthorizationParameters)

-----------------------------------------------------------------------------
(* One round trip *)

Operations == {"startLogin", "endLogin", "session", "refresh", "logout", "onPageLoad"}

\* call c starts in this step
Starts(c) == calls[c].pc = "idle" /\ calls'[c].pc # "idle"

\* call c completes in this step
Completes(c) == ~Settled(c) /\ Settled(c)'

\* C13 as stated: every completed call of the six operations has issued exactly
\* one HTTP request.
C13_ExactlyOneRequest ==
    \A c \in DOMAIN calls : Settled(c) => calls[c].sent = 1

\* what C13 asks of call c in one step
OneRoundTrip(c) ==
    /\ calls'[c].sent <= 1
    /\ Cardinality(RequestsOf(c)') <= 1
    /\ Starts(c) =>
          /\ calls'[c].op \in Operations
          /\ IF calls'[c].op = "onPageLoad" /\ ~calls'[c].pageUrl.parseable
             THEN /\ calls'[c].sent = 0
                  /\ network' = network
                  /\ calls'[c].pc = "rejected"
             ELSE /\ calls'[c].sent = 1
                  /\ Cardinality(RequestsOf(c)') = 1
                  /\ calls'[c].pc = "fetch"
          /\ calls'[c].op = "onPageLoad" =>
                \A r \in RequestsOf(c)' : ToLoginEnd(r) # ToSession(r)
    /\ (Completes(c) /\ ~Starts(c)) =>
          /\ calls[c].sent = 1
          /\ calls'[c].sent = 1
          /\ RequestsOf(c)' = {}
          /\ \/ calls'[c].response # NoResponse
             \/ calls[c].pc = "fetch" /\ calls'[c].error = TypeError
    /\ (~Starts(c) /\ calls[c].pc # "idle") =>
          /\ RequestsOf(c)' \subseteq RequestsOf(c)
          /\ calls'[c].pc # "idle" => calls'[c].sent = calls[c].sent

\* C13 (amended): every call of startLogin, endLogin, session, refresh or logout,
\* and every onPageLoad of a parseable page URL, issues exactly one HTTP request
\* and completes only after that request's response or transport failure; an
\* onPageLoad of an unparseable page URL rejects without issuing any request; no
\* request is re-issued after a failure, and onPageLoad's one request goes to
\* either login/end or session, never to both.
C13_OneRequestUnlessUnparseable ==
    [][\A c \in DOMAIN calls : OneRoundTrip(c)]_vars

C13_Witness ==
    \E c \in DOMAIN calls :
        /\ calls[c].op = "onPageLoad"
        /\ calls[c].pc = "rejected"
        /\ calls[c].sent = 0
        /\ network = {}

-----------------------------------------------------------------------------
(* Wire protocol *)

\* the method and path of the wire protocol for a client operation
WireProtocol(then) ==
    CASE then = "startLogin" -> [method |-> "POST", path |-> PathLoginStart]
      [] then = "endLogin" -> [method |-> "POST", path |-> PathLoginEnd]
      [] then = "session" -> [method |-> "GET", path |-> PathSession]
      [] then = "refresh" -> [method |-> "POST", path |-> PathRefresh]
      [] then = "logout" -> [method |-> "POST", path |-> PathLogout]

MethodPathPairs ==
    {WireProtocol(then) : then \in {"startLogin", "endLogin", "session", "refresh", "logout"}}

\* C14: startLogin is POST login/start, endLogin is POST login/end, session is
\* GET session, refresh is POST refresh, logout is POST logout (onPageLoad is
\* one of endLogin and session), and no request has any other method/path pair.
C14_MethodAndPath ==
    \A r \in network :
        LET call == calls[r.c]
            operation == IF call.op = "onPageLoad" THEN call.then ELSE call.op
        IN  /\ operation \in {"startLogin", "endLogin", "session", "refresh", "logout"}
            /\ call.op # "onPageLoad" => call.then = call.op
            /\ call.op = "onPageLoad" => call.then \in {"endLogin", "session"}
            /\ r.method = WireProtocol(operation).method
            /\ r.path = WireProtocol(operation).path
            /\ r.url = oauthAgentBaseUrl \o WireProtocol(operation).path
            /\ [method |-> r.method, path |-> r.path] \in MethodPathPairs

C14_Witness ==
    \E r \in network :
        /\ calls[r.c].op = "refresh"
        /\ r.method = "POST"
        /\ r.path = PathRefresh

-----------------------------------------------------------------------------
(* Request options *)

ToLoginStart(r) == UrlEndsWith(r.url, PathLoginStart)

\* C15: every request has credentials included, cross-origin mode and
\* Accept: application/json; it declares the form content type and carries a
\* body exactly when its path is login/start or login/end, and a session,
\* refresh or logout request has neither a body nor a content type.
C15_RequestOptions ==
    \A r \in network :
        /\ r.credentials = "include"
        /\ r.mode = "cors"
        /\ r.accept = "application/json"
        /\ IF ToLoginStart(r) \/ ToLoginEnd(r)
           THEN /\ r.contentType = "application/x-www-form-urlencoded"
                /\ r.body.present
           ELSE /\ r.path \in {PathSession, PathRefresh, PathLogout}
                /\ r.contentType = Absent
                /\ ~r.body.present
                /\ r.wire = <<>>

C15_Witness ==
    \E r \in network :
        /\ r.path = PathLogout
        /\ r.credentials = "include"
        /\ r.contentType = Absent
        /\ ~r.body.present

-----------------------------------------------------------------------------
(* Unwrapped errors *)

\* the client parsed the body of call c's response: the response is 2xx, or its
\* content type is exactly application/json
BodyParsed(c) ==
    /\ calls[c].response # NoResponse
    /\ \/ calls[c].response.status \in 200..299
       \/ calls[c].response.contentType = "application/json"

\* C17: a RemoteError is raised only for a received non-2xx response; a
\* transport failure, a response body that fails to parse and an unparseable
\* pageUrl reject with the primitive's own error (TypeError, SyntaxError), never
\* with a RemoteError, and for an unparseable pageUrl no request is issued.
C17_RemoteErrorOnlyForFailure ==
    \A c \in DOMAIN calls :
        /\ calls[c].error.name = "OAuthAgentRemoteError" => Failed(c)
        /\ (Settled(c) /\ calls[c].response = NoResponse)
              => calls[c].pc = "rejected" /\ calls[c].error = TypeError
        /\ (Settled(c) /\ BodyParsed(c) /\ calls[c].response.body.state # "json")
              => calls[c].pc = "rejected" /\ calls[c].error = SyntaxError
        /\ (calls[c].op = "onPageLoad" /\ RequestsOf(c) # {})
              => calls[c].pageUrl.parseable
        /\ (calls[c].pc # "idle" /\ calls[c].sent = 0)
              => /\ calls[c].op = "onPageLoad"
                 /\ ~calls[c].pageUrl.parseable
                 /\ RequestsOf(c) = {}
                 /\ calls[c].pc = "rejected"
                 /\ calls[c].error = TypeError

C17_Witness ==
    \E c \in DOMAIN calls :
        /\ Settled(c)
        /\ Failed(c)
        /\ calls[c].response.contentType = "application/json"
        /\ calls[c].response.body.state # "json"
        /\ calls[c].error = SyntaxError

-----------------------------------------------------------------------------
(* Delegation of onPageLoad *)

\* the parameters of a page's query, in order, character by character
RECURSIVE PageParameters(_)
PageParameters(query) ==
    IF query = <<>> THEN <<>>
    ELSE (IF Head(query) = EmptySegment THEN <<>>
          ELSE <<[k |-> Chars(Head(query).k), v |-> Chars(Head(query).v)]>>)
             \o PageParameters(Tail(query))

\* call c ended as a call of session or endLogin ends for the response it got
DelegatedOutcome(c) ==
    LET response == calls[c].response
        json == response.body.json
    IN  IF response = NoResponse
        THEN calls[c].pc = "rejected" /\ calls[c].error = TypeError
        ELSE IF BodyParsed(c) /\ response.body.state # "json"
        THEN calls[c].pc = "rejected" /\ calls[c].error = SyntaxError
        ELSE IF response.status \in 200..299
        THEN /\ calls[c].pc = "resolved"
             /\ calls[c].error = NoError
             /\ calls[c].result = [isLoggedIn |-> json.is_logged_in,
                                   idTokenClaims |-> json.id_token_claims,
                                   accessTokenExpiresIn |-> json.access_token_expires_in]
        ELSE /\ calls[c].pc = "rejected"
             /\ calls[c].result = NoResult
             /\ calls[c].error.name = "OAuthAgentRemoteError"
             /\ calls[c].error.status = response.status
             /\ calls[c].error.code = IF response.contentType = "application/json"
                                      THEN json.error_code ELSE "server_error"

\* C18: when onPageLoad classifies the page as an authorization response, the
\* body sent to login/end carries exactly the page's query parameters (keys,
\* values, multiplicity and order) and does not begin with "?"; and onPageLoad
\* returns or rejects with exactly the outcome of the delegated endLogin or
\* session call.
C18_PageParametersForwarded ==
    \A c \in DOMAIN calls :
        calls[c].op = "onPageLoad" =>
            /\ \A r \in RequestsOf(c) :
                   IF PlainOrError(calls[c].pageUrl.query)
                          \/ (QueryContains(calls[c].pageUrl.query, "response")
                                /\ ParamCount(calls[c].pageUrl.query) = 1)
                   THEN /\ ToLoginEnd(r)
                        /\ DecodeForm(r.wire) = PageParameters(calls[c].pageUrl.query)
                        /\ r.wire # <<>> => Head(r.wire) # "?"
                   ELSE ToSession(r)
            /\ (Settled(c) /\ calls[c].sent = 1) => DelegatedOutcome(c)

C18_Witness ==
    \E c \in DOMAIN calls :
        /\ calls[c].op = "onPageLoad"
        /\ \E r \in RequestsOf(c) :
               /\ ToLoginEnd(r)
               /\ Len(calls[c].pageUrl.query) = 3
               /\ Len(DecodeForm(r.wire)) = 3
               /\ \E i \in 1..3 : DecodeForm(r.wire)[i].k = <<"foo">>
               /\ DecodeForm(r.wire) = PageParameters(calls[c].pageUrl.query)

-----------------------------------------------------------------------------
(* Exact content type *)

\* C19: the body of a non-2xx response is parsed only when the content-type
\* header is exactly application/json; for any other value, absent or
\* application/json with a parameter included, the body is never parsed and the
\* call rejects with a RemoteError whose code is the fixed server_error, not the
\* error_code the Agent sent.
C19_ExactContentType ==
    \A c \in DOMAIN calls :
        /\ calls[c].pc = "errorJson" => calls[c].response.contentType = "application/json"
        /\ (Failed(c) /\ calls[c].response.contentType # "application/json")
              => /\ calls[c].pc = "rejected"
                 /\ calls[c].error.name = "OAuthAgentRemoteError"
                 /\ calls[c].error.status = calls[c].response.status
                 /\ calls[c].error.code = "server_error"
                 /\ calls[c].error.details = calls[c].response.statusText
        /\ (Settled(c) /\ Failed(c) /\ calls[c].response.contentType = "application/json"
              /\ calls[c].response.body.state = "json")
              => calls[c].error.code = calls[c].response.body.json.error_code

C19_Witness ==
    \E c \in DOMAIN calls :
        /\ Settled(c)
        /\ Failed(c)
        /\ calls[c].response.contentType = "application/json; charset=utf-8"
        /\ calls[c].response.body.state = "json"
        /\ calls[c].response.body.json.error_code \notin {Absent, "server_error"}
        /\ calls[c].error.code = "server_error"

-----------------------------------------------------------------------------
(* Calls in flight together *)

\* the object an operation returns for a 2xx payload
ExpectedResult(then, json) ==
    CASE then \in {"session", "endLogin"} ->
             [isLoggedIn |-> json.is_logged_in,
              idTokenClaims |-> json.id_token_claims,
              accessTokenExpiresIn |-> json.access_token_expires_in]
      [] then = "refresh" -> [accessTokenExpiresIn |-> json.access_token_expires_in]
      [] then = "logout" -> [logoutUrl |-> json.logout_url]
      [] then = "startLogin" -> [authorizationUrl |-> json.authorization_url]

\* the outcome of a completed call c is the one its own response gives
OwnOutcome(c) ==
    LET response == calls[c].response
        json == response.body.json
    IN  (Settled(c) /\ calls[c].sent = 1) =>
            IF response = NoResponse
            THEN calls[c].pc = "rejected" /\ calls[c].error = TypeError
            ELSE IF BodyParsed(c) /\ response.body.state # "json"
            THEN calls[c].pc = "rejected" /\ calls[c].error = SyntaxError
            ELSE IF response.status \in 200..299
            THEN /\ calls[c].pc = "resolved"
                 /\ calls[c].error = NoError
                 /\ calls[c].result = ExpectedResult(calls[c].then, json)
            ELSE /\ calls[c].pc = "rejected"
                 /\ calls[c].result = NoResult
                 /\ calls[c].error.name = "OAuthAgentRemoteError"
                 /\ calls[c].error.status = response.status
                 /\ calls[c].error.code = IF response.contentType = "application/json"
                                          THEN json.error_code ELSE "server_error"

\* the request of call c is the one of its own operation
OwnRequest(c) ==
    \A r \in RequestsOf(c) :
        /\ r.method = WireProtocol(calls[c].then).method
        /\ r.url = Constructor(config) \o WireProtocol(calls[c].then).path
        /\ r.body.present = (calls[c].then \in {"startLogin", "endLogin"})

\* a step of call c
StepOf(c) == calls'[c] # calls[c] \/ RequestsOf(c)' # RequestsOf(c)

\* C16: with several calls of one client in flight and their responses arriving
\* in any order, a step of one call leaves every other call's record and
\* request as they were, the client's stored base URL never changes, each
\* request is the one of its own call's operation, and each call resolves or
\* rejects with the outcome its own response gives.
C16_CallsDoNotInterfere ==
    [][ /\ oauthAgentBaseUrl' = oauthAgentBaseUrl
        /\ \A c \in DOMAIN calls :
              /\ StepOf(c) =>
                    \A d \in DOMAIN calls \ {c} :
                        calls'[d] = calls[d] /\ RequestsOf(d)' = RequestsOf(d)
              /\ OwnRequest(c)'
              /\ OwnOutcome(c)' ]_vars

C16_Witness ==
    \E c, d \in DOMAIN calls :
        /\ c # d
        /\ calls[c].op = "session"
        /\ calls[c].pc = "json"
        /\ calls[c].response.status = 200
        /\ calls[d].op = "refresh"
        /\ calls[d].pc = "errorJson"
        /\ calls[d].response.status = 500

-----------------------------------------------------------------------------
(* Idempotence of session *)

\* the request every call of session() sends, whatever calls were made before
SessionRequest(c) ==
    [c |-> c,
     method |-> "GET",
     path |-> PathSession,
     url |-> Constructor(config) \o PathSession,
     accept |-> "application/json",
     tokenHandlerVersion |-> "1",
     contentType |-> Absent,
     credentials |-> "include",
     mode |-> "cors",
     body |-> NoContent,
     wire |-> <<>>]

\* the outcome of call c as the caller sees it
Outcome(c) == [pc |-> calls[c].pc, result |-> calls[c].result, error |-> calls[c].error]

\* C12: two calls of session() that get the same answer from the Agent have
\* equal outcomes, and a call of session() changes nothing a later call of
\* session() depends on: the client's base URL stays as constructed and every
\* session request is the same request.
C12_SessionIdempotent ==
    [][ /\ oauthAgentBaseUrl' = Constructor(config)
        /\ config' = config
        /\ \A c \in DOMAIN calls :
              calls'[c].op = "session" =>
                 /\ RequestsOf(c)' \subseteq {SessionRequest(c)}
                 /\ \A d \in DOMAIN calls :
                       ( /\ calls'[d].op = "session"
                         /\ Settled(c)' /\ Settled(d)'
                         /\ calls'[c].response = calls'[d].response )
                       => Outcome(c)' = Outcome(d)' ]_vars

C12_Witness ==
    \E c, d \in DOMAIN calls :
        /\ c # d
        /\ calls[c].op = "session" /\ calls[d].op = "session"
        /\ calls[c].pc = "resolved" /\ calls[d].pc = "resolved"
        /\ calls[c].response = calls[d].response
        /\ calls[c].result.isLoggedIn = "true"
        /\ calls[c].result = calls[d].result

====
